---- MODULE Spec2Model ----
(***************************************************************************)
(* A model of passport-discord-token (src/src/index.js): the               *)
(* DiscordTokenStrategy, its token lookup helpers and the continuation     *)
(* chain of authenticate(req).                                             *)
(*                                                                         *)
(* JavaScript values are tagged records, so that values of different       *)
(* JavaScript types can be compared.  A JavaScript string is a sequence of *)
(* chunks; the chunk "Bearer " stands for that literal text, "\n" for a    *)
(* line terminator, every other chunk for text without either.  An object  *)
(* is the sequence of its own properties in insertion order.               *)
(***************************************************************************)
EXTENDS Integers, Sequences, FiniteSets, TLC

VARIABLES config, strategy, req, pc, accessToken, refreshToken, trace, doneCalls

vars == <<config, strategy, req, pc, accessToken, refreshToken, trace, doneCalls>>

(***************************************************************************)
(* Bounds of the model.                                                    *)
(***************************************************************************)
\* How often the application's verify callback may invoke done.
MaxDoneCalls == 2

(***************************************************************************)
(* JavaScript values.                                                      *)
(***************************************************************************)
Undefined == [t |-> "undefined"]
Null == [t |-> "null"]
Bool(b) == [t |-> "boolean", b |-> b]
Str(s) == [t |-> "string", s |-> s]
Obj(props) == [t |-> "object", props |-> props]
Prop(k, v) == [k |-> k, v |-> v]

\* ToBoolean: undefined, null, false and the empty string are falsy.
Truthy(v) ==
  CASE v.t = "undefined" -> FALSE
    [] v.t = "null" -> FALSE
    [] v.t = "boolean" -> v.b
    [] v.t = "string" -> Len(v.s) > 0
    [] OTHER -> TRUE

\* a || b
Or(a, b) == IF Truthy(a) THEN a ELSE b

\* a && b
And(a, b) == IF Truthy(a) THEN b ELSE a

\* typeof v === 'object' (null included)
TypeofObject(v) == v.t \in {"object", "null"}

\* String.prototype.toLowerCase on the property names of the model.
ToLowerCase(k) ==
  CASE k = "ACCESS_TOKEN" -> "access_token"
    [] k = "REFRESH_TOKEN" -> "refresh_token"
    [] k = "Access_Token" -> "access_token"
    [] k = "Authorization" -> "authorization"
    [] k = "AUTHORIZATION" -> "authorization"
    [] OTHER -> k

\* Object.keys(o)
Keys(o) == [n \in 1..Len(o.props) |-> o.props[n].k]

\* o[k]: the value of the own property k, undefined when there is none.
Get(o, k) ==
  IF \E n \in 1..Len(o.props) : o.props[n].k = k
  THEN o.props[CHOOSE n \in 1..Len(o.props) : o.props[n].k = k].v
  ELSE Undefined

\* {...o, [k]: v}: assigns in place when o has k, appends the property otherwise.
WithProp(props, k, v) ==
  IF \E n \in 1..Len(props) : props[n].k = k
  THEN [n \in 1..Len(props) |-> IF props[n].k = k THEN Prop(k, v) ELSE props[n]]
  ELSE Append(props, Prop(k, v))

(***************************************************************************)
(* Token lookup: headerLookup, parseOAuth2Header, lookup.                  *)
(***************************************************************************)
\* The callback of Object.keys(req.headers).find in headerLookup: the value
\* assigned to headerValue for the key at position n.
HeaderKeyResult(headers, n, _field) ==
  And(Bool(ToLowerCase(Keys(headers)[n]) = _field), Get(headers, Keys(headers)[n]))

\* Array.prototype.find over the keys from position n on; headerValue is the
\* value the last callback that ran has assigned.
RECURSIVE HeaderFind(_, _, _, _)
HeaderFind(headers, n, _field, headerValue) ==
  IF n > Len(headers.props) THEN headerValue
  ELSE LET r == HeaderKeyResult(headers, n, _field)
       IN IF Truthy(r) THEN r ELSE HeaderFind(headers, n + 1, _field, r)

\* Fault: the queried field name is compared as it is given.
headerLookupFieldAsGiven(r, field) ==
  IF ~Truthy(r.headers) \/ ~TypeofObject(r.headers) THEN Bool(FALSE)
  ELSE Or(HeaderFind(r.headers, 1, field, Undefined), Bool(FALSE))

headerLookup(r, field) ==
  IF ~Truthy(r.headers) \/ ~TypeofObject(r.headers) THEN Bool(FALSE)
  ELSE Or(HeaderFind(r.headers, 1, ToLowerCase(field), Undefined), Bool(FALSE))

\* The index of the first chunk of s, from position n on, that is c; 0 if none.
RECURSIVE IndexOf(_, _, _)
IndexOf(s, c, n) ==
  IF n > Len(s) THEN 0
  ELSE IF s[n] = c THEN n ELSE IndexOf(s, c, n + 1)

\* What (.*) captures from s: everything up to the first line terminator.
UpToLineEnd(s) ==
  IF IndexOf(s, "\n", 1) = 0 THEN s ELSE SubSeq(s, 1, IndexOf(s, "\n", 1) - 1)

\* headerValue.match(/Bearer (.*)/): null, or the match with its group 1.
MatchBearer(s) ==
  LET at == IndexOf(s, "Bearer ", 1)
  IN IF at = 0 THEN Null
     ELSE Obj(<<Prop("1", Str(UpToLineEnd(SubSeq(s, at + 1, Len(s)))))>>)

parseOAuth2Header(r) ==
  LET headerValue == headerLookup(r, "authorization")
  IN IF ~Truthy(headerValue) THEN headerValue
     ELSE LET match == MatchBearer(headerValue.s)
          IN IF ~Truthy(match) THEN Bool(FALSE)
             ELSE IF ~Truthy(Get(match, "1")) THEN Bool(FALSE)
             ELSE Get(match, "1")

\* Fault: a carrier that is not an object is taken for the value itself.
CarrierResultAnyType(r, carrier, field) ==
  LET fields == CASE carrier = "body" -> r.body
                  [] carrier = "query" -> r.query
                  [] carrier = "headers" -> r.headers
                  [] OTHER -> Undefined
  IN IF carrier = "headers" THEN headerLookup(r, field)
     ELSE IF ~Truthy(fields) THEN Bool(FALSE)
     ELSE IF ~TypeofObject(fields) THEN fields
     ELSE Get(fields, field)

\* The callback of this._lookups.find in lookup: the value assigned to result
\* for one carrier.
CarrierResult(r, carrier, field) ==
  LET fields == CASE carrier = "body" -> r.body
                  [] carrier = "query" -> r.query
                  [] carrier = "headers" -> r.headers
                  [] OTHER -> Undefined
  IN IF carrier = "headers" THEN headerLookup(r, field)
     ELSE IF ~Truthy(fields) THEN Bool(FALSE)
     ELSE IF ~TypeofObject(fields) THEN Bool(FALSE)
     ELSE Get(fields, field)

RECURSIVE LookupFind(_, _, _, _, _)
LookupFind(lookups, n, r, field, result) ==
  IF n > Len(lookups) THEN result
  ELSE LET res == CarrierResult(r, lookups[n], field)
       IN IF Truthy(res) THEN res ELSE LookupFind(lookups, n + 1, r, field, res)

lookup(s, r, field) == LookupFind(s._lookups, 1, r, field, Undefined)

(***************************************************************************)
(* Errors.                                                                 *)
(***************************************************************************)
\* new InternalOAuthError(message, err) of passport-oauth.
InternalOAuthError(message, err) ==
  [t |-> "error", name |-> "InternalOAuthError", message |-> message, oauthError |-> err]

\* The SyntaxError JSON.parse throws at position n of the text s.
SyntaxError(s, n) ==
  IF n > Len(s)
  THEN [t |-> "error", name |-> "SyntaxError", message |-> "Unexpected end of JSON input"]
  ELSE [t |-> "error", name |-> "SyntaxError", message |-> "Unexpected token in JSON",
        token |-> s[n], position |-> n]

(***************************************************************************)
(* userProfile: JSON.parse of the response body and the profile record.    *)
(* A JSON text is the sequence of its lexemes: "{", "}", ":", ",", "null"  *)
(* and one chunk for each member name and each string value.               *)
(***************************************************************************)
Punctuation == {"{", "}", ":", ","}

ParseOk(v) == [ok |-> TRUE, value |-> v]
ParseFail(s, n) == [ok |-> FALSE, error |-> SyntaxError(s, n)]

\* The members of an object from lexeme n on; props holds the members read.
RECURSIVE ParseMembers(_, _, _)
ParseMembers(s, n, props) ==
  IF n > Len(s) \/ s[n] \in Punctuation THEN ParseFail(s, n)
  ELSE IF n + 1 > Len(s) \/ s[n + 1] # ":" THEN ParseFail(s, n + 1)
  ELSE IF n + 2 > Len(s) \/ s[n + 2] \in Punctuation THEN ParseFail(s, n + 2)
  ELSE LET read == WithProp(props, s[n], Str(<<s[n + 2]>>))
       IN IF n + 3 > Len(s) THEN ParseFail(s, n + 3)
          ELSE IF s[n + 3] = "," THEN ParseMembers(s, n + 4, read)
          ELSE IF s[n + 3] # "}" THEN ParseFail(s, n + 3)
          ELSE IF n + 3 < Len(s) THEN ParseFail(s, n + 4)
          ELSE ParseOk(Obj(read))

\* JSON.parse(body)
JSONParse(body) ==
  IF body.t # "string" THEN ParseFail(<<"undefined">>, 1)
  ELSE LET s == body.s
       IN IF Len(s) = 0 THEN ParseFail(s, 1)
          ELSE IF s = <<"null">> THEN ParseOk(Null)
          ELSE IF s[1] # "{" THEN ParseFail(s, 1)
          ELSE IF Len(s) >= 2 /\ s[2] = "}"
               THEN IF Len(s) = 2 THEN ParseOk(Obj(<<>>)) ELSE ParseFail(s, 3)
          ELSE ParseMembers(s, 2, <<>>)

\* {...props, ...src}: the own properties of src from position n on, copied
\* in order; spreading a value that is no object copies nothing.
RECURSIVE Spread(_, _, _)
Spread(props, src, n) ==
  IF src.t # "object" \/ n > Len(src.props) THEN props
  ELSE Spread(WithProp(props, src.props[n].k, src.props[n].v), src, n + 1)

\* Fault: the document is spread after _raw.
ProfileRawFirst(json, body) ==
  Obj(Spread(<<Prop("provider", Str(<<"discord">>)), Prop("_raw", body)>>, json, 1))

\* The object literal {provider: 'discord', ...json, _raw: body}.
Profile(json, body) ==
  Obj(WithProp(Spread(<<Prop("provider", Str(<<"discord">>))>>, json, 1), "_raw", body))

\* Fault: a parse error is wrapped like a transport error.
userProfileWrapsParseError(error, body) ==
  IF Truthy(error)
  THEN [error |-> InternalOAuthError("Failed to fetch user profile", error),
        profile |-> Undefined]
  ELSE IF JSONParse(body).ok
  THEN [error |-> Null, profile |-> Profile(JSONParse(body).value, body)]
  ELSE [error |-> InternalOAuthError("Failed to fetch user profile", JSONParse(body).error),
        profile |-> Undefined]

\* The arguments (error, profile) userProfile hands to its done for one
\* response (error, body) of this._oauth2.get.
userProfile(error, body) ==
  IF Truthy(error)
  THEN [error |-> InternalOAuthError("Failed to fetch user profile", error),
        profile |-> Undefined]
  ELSE IF JSONParse(body).ok
  THEN [error |-> Null, profile |-> Profile(JSONParse(body).value, body)]
  ELSE [error |-> JSONParse(body).error, profile |-> Undefined]

(***************************************************************************)
(* The constructor.  options is a record that has a field for each option  *)
(* that is given; a default applies to an option that is not given.        *)
(***************************************************************************)
Given(options, name) == name \in DOMAIN options

Option(options, name, default) == IF Given(options, name) THEN options[name] ELSE default

\* The options object handed to the base class: clientID, the two Discord
\* URLs, and the rest of the options (clientSecret is not among them).
BaseOptions(options) ==
  [clientID |-> Option(options, "clientID", Undefined),
   clientSecret |-> Undefined,
   authorizationURL |-> Option(options, "authorizationURL",
                               Str(<<"https://discord.com/api/oauth2/authorize">>)),
   tokenURL |-> Option(options, "tokenURL", Str(<<"https://discord.com/api/oauth2/token">>)),
   passReqToCallback |-> Option(options, "passReqToCallback", Undefined)]

DiscordTokenStrategy(options) ==
  [name |-> "discord-token",
   _accessTokenField |-> Option(options, "accessTokenField", "access_token"),
   _refreshTokenField |-> Option(options, "refreshTokenField", "refresh_token"),
   _lookups |-> Option(options, "lookups", <<"body", "query", "headers">>),
   _oAuth2HeaderFallback |-> Option(options, "oAuth2HeaderFallback", Bool(TRUE)),
   _refreshTokenFallback |-> Option(options, "refreshTokenFallback", Bool(TRUE)),
   _profileURL |-> Or(Option(options, "_profileURL", Undefined),
                      Str(<<"https://discord.com/api/users/@me">>)),
   _passReqToCallback |-> BaseOptions(options).passReqToCallback,
   _oauth2 |-> [clientId |-> BaseOptions(options).clientID,
                clientSecret |-> BaseOptions(options).clientSecret,
                authorizeUrl |-> BaseOptions(options).authorizationURL,
                accessTokenUrl |-> BaseOptions(options).tokenURL,
                _useAuthorizationHeaderForGET |-> TRUE]]

(***************************************************************************)
(* authenticate(req).  trace[i] is the history of invocation i at its      *)
(* boundary, in order: the calls it makes on the transport                 *)
(* (getOAuthAccessToken, get), on the verify callback and on the           *)
(* dispositions success, fail and error, and the calls it receives (the    *)
(* transport's callbacks, userProfile's done, verify's done, an exception  *)
(* thrown by verify).                                                      *)
(***************************************************************************)
Invocations == DOMAIN pc

Success(user, info) == [op |-> "success", user |-> user, info |-> info]
Fail(info) == [op |-> "fail", info |-> info]
Error(err) == [op |-> "error", err |-> err]

NeitherTokenMessage ==
  "Neither access token nor refresh token could be parsed from the request"
ExchangeDisabledMessage ==
  "Access token could not be parsed from the request (refresh token exchange disabled)"
ExchangeFailedMessage == "Failed to exchange refresh token for access token"

\* Fault: the bearer header is a fallback only when headers is a configured
\* carrier.
ResolveAccessTokenHeaderIfConfigured(s, r) ==
  Or(lookup(s, r, s._accessTokenField),
     And(Bool(\E n \in 1..Len(s._lookups) : s._lookups[n] = "headers"),
         And(s._oAuth2HeaderFallback, parseOAuth2Header(r))))

\* Fault: the bearer header is consulted before the carriers.
ResolveAccessTokenHeaderFirst(s, r) ==
  Or(And(s._oAuth2HeaderFallback, parseOAuth2Header(r)), lookup(s, r, s._accessTokenField))

\* let accessToken = this.lookup(...) || (this._oAuth2HeaderFallback && parseOAuth2Header(req))
ResolveAccessToken(s, r) ==
  Or(lookup(s, r, s._accessTokenField), And(s._oAuth2HeaderFallback, parseOAuth2Header(r)))

\* Fault: the bearer header is a fallback for the refresh token too.
ResolveRefreshTokenWithHeader(s, r) ==
  Or(lookup(s, r, s._refreshTokenField), And(s._oAuth2HeaderFallback, parseOAuth2Header(r)))

\* let refreshToken = this.lookup(req, this._refreshTokenField)
ResolveRefreshToken(s, r) == lookup(s, r, s._refreshTokenField)

\* this._oauth2.getOAuthAccessToken(refreshToken, {grant_type: 'refresh_token'}, cb)
ExchangeCall(s, rt) ==
  [op |-> "getOAuthAccessToken", oauth2 |-> s._oauth2,
   code |-> rt, grant_type |-> "refresh_token"]

\* loadUserProfile(): this._loadUserProfile(accessToken, cb), which runs
\* userProfile: this._oauth2.get(this._profileURL, accessToken, cb).
ProfileCall(s, at) == [op |-> "get", url |-> s._profileURL, accessToken |-> at]

\* Fault: the two tokens in each other's place.
VerifyArgsSwapped(s, r, at, rt, profile) ==
  LET args == <<rt, at, profile, [t |-> "function", name |-> "done"]>>
  IN IF Truthy(s._passReqToCallback) THEN <<r>> \o args ELSE args

\* Fault: push(req) for unshift(req).
VerifyArgsPush(s, r, at, rt, profile) ==
  LET args == <<at, rt, profile, [t |-> "function", name |-> "done"]>>
  IN IF Truthy(s._passReqToCallback) THEN args \o <<r>> ELSE args

\* const args = [accessToken, refreshToken, profile, done];
\* if (this._passReqToCallback) args.unshift(req);
VerifyArgs(s, r, at, rt, profile) ==
  LET args == <<at, rt, profile, [t |-> "function", name |-> "done"]>>
  IN IF Truthy(s._passReqToCallback) THEN <<r>> \o args ELSE args

VerifyCall(s, r, at, rt, profile) ==
  [op |-> "verify", args |-> VerifyArgs(s, r, at, rt, profile)]

\* Fault: the check of refreshTokenFallback ahead of the check for no token.
AuthenticateCallsFlagFirst(s, at, rt) ==
  IF ~Truthy(at) /\ ~Truthy(s._refreshTokenFallback)
  THEN <<Fail([message |-> ExchangeDisabledMessage])>>
  ELSE IF ~Truthy(at) /\ ~Truthy(rt) THEN <<Fail([message |-> NeitherTokenMessage])>>
  ELSE IF ~Truthy(at) /\ Truthy(rt) THEN <<ExchangeCall(s, rt)>>
  ELSE <<ProfileCall(s, at)>>

\* Fault: refreshTokenFallback is not consulted.
AuthenticateCallsNoFlagCheck(s, at, rt) ==
  IF ~Truthy(at) /\ ~Truthy(rt) THEN <<Fail([message |-> NeitherTokenMessage])>>
  ELSE IF ~Truthy(at) /\ Truthy(rt) THEN <<ExchangeCall(s, rt)>>
  ELSE <<ProfileCall(s, at)>>

\* Fault: a refresh token is exchanged also when an access token is present.
AuthenticateCallsExchangeFirst(s, at, rt) ==
  IF ~Truthy(at) /\ ~Truthy(rt) THEN <<Fail([message |-> NeitherTokenMessage])>>
  ELSE IF ~Truthy(at) /\ ~Truthy(s._refreshTokenFallback)
  THEN <<Fail([message |-> ExchangeDisabledMessage])>>
  ELSE IF Truthy(rt) /\ Truthy(s._refreshTokenFallback) THEN <<ExchangeCall(s, rt)>>
  ELSE <<ProfileCall(s, at)>>

\* Fault: loadUserProfile is called right after the exchange is started.
AuthenticateCallsFetchDuringExchange(s, at, rt) ==
  IF ~Truthy(at) /\ ~Truthy(rt) THEN <<Fail([message |-> NeitherTokenMessage])>>
  ELSE IF ~Truthy(at) /\ ~Truthy(s._refreshTokenFallback)
  THEN <<Fail([message |-> ExchangeDisabledMessage])>>
  ELSE IF ~Truthy(at) /\ Truthy(rt) THEN <<ExchangeCall(s, rt), ProfileCall(s, at)>>
  ELSE <<ProfileCall(s, at)>>

\* Fault: the invocation is failed when the exchange is started, not waiting
\* for its callback.
AuthenticateCallsFailWhileExchanging(s, at, rt) ==
  IF ~Truthy(at) /\ ~Truthy(rt) THEN <<Fail([message |-> NeitherTokenMessage])>>
  ELSE IF ~Truthy(at) /\ ~Truthy(s._refreshTokenFallback)
  THEN <<Fail([message |-> ExchangeDisabledMessage])>>
  ELSE IF ~Truthy(at) /\ Truthy(rt)
  THEN <<Fail([message |-> "timeout"]), ExchangeCall(s, rt)>>
  ELSE <<ProfileCall(s, at)>>

\* The calls the synchronous part of authenticate makes for the resolved
\* tokens at and rt.
AuthenticateCalls(s, at, rt) ==
  IF ~Truthy(at) /\ ~Truthy(rt) THEN <<Fail([message |-> NeitherTokenMessage])>>
  ELSE IF ~Truthy(at) /\ ~Truthy(s._refreshTokenFallback)
  THEN <<Fail([message |-> ExchangeDisabledMessage])>>
  ELSE IF ~Truthy(at) /\ Truthy(rt) THEN <<ExchangeCall(s, rt)>>
  ELSE <<ProfileCall(s, at)>>

\* Fault: the request's refresh token is kept when the exchange returns none.
ExchangedTokensKeepRefresh(at, rt, _accessToken, _refreshToken) ==
  [accessToken |-> _accessToken, refreshToken |-> Or(_refreshToken, rt)]

\* What the callback given to getOAuthAccessToken leaves in the closure's
\* accessToken and refreshToken, which held at and rt, when the exchange
\* reports no error.
ExchangedTokens(at, rt, _accessToken, _refreshToken) ==
  [accessToken |-> _accessToken, refreshToken |-> _refreshToken]

\* Fault: no return after this.error(...).
ExchangeCallbackCallsNoReturn(s, error, at) ==
  IF Truthy(error)
  THEN <<Error(InternalOAuthError(ExchangeFailedMessage, error)), ProfileCall(s, at)>>
  ELSE <<ProfileCall(s, at)>>

\* Fault: the transport's error is reported as it is.
ExchangeCallbackCallsUnwrapped(s, error, at) ==
  IF Truthy(error) THEN <<Error(error)>> ELSE <<ProfileCall(s, at)>>

\* The calls the callback given to getOAuthAccessToken makes; at is the
\* closure's accessToken after the assignments.
ExchangeCallbackCalls(s, error, at) ==
  IF Truthy(error)
  THEN <<Error(InternalOAuthError(ExchangeFailedMessage, error))>>
  ELSE <<ProfileCall(s, at)>>

\* Fault: the error of the profile fetch is not looked at.
LoadUserProfileCallbackIgnoresError(s, r, at, rt, error, profile) ==
  <<VerifyCall(s, r, at, rt, profile)>>

\* The calls the callback (error, profile) given to this._loadUserProfile
\* makes; at and rt are the closure's accessToken and refreshToken.
LoadUserProfileCallback(s, r, at, rt, error, profile) ==
  IF Truthy(error) THEN <<Error(error)>>
  ELSE <<VerifyCall(s, r, at, rt, profile)>>

\* Fault: the user is looked at before the error.
DoneDispositionUserFirst(err, user, info) ==
  IF ~Truthy(user) THEN Fail(info)
  ELSE IF Truthy(err) THEN Error(err)
  ELSE Success(user, info)

\* done(err, user, info) of loadUserProfile
DoneDisposition(err, user, info) ==
  IF Truthy(err) THEN Error(err)
  ELSE IF ~Truthy(user) THEN Fail(info)
  ELSE Success(user, info)

\* The state an invocation is left in by the calls it has just made.
PcAfter(made, otherwise) ==
  LET last == made[Len(made)]
  IN CASE last.op = "getOAuthAccessToken" -> "exchanging"
       [] last.op = "get" -> "fetching"
       [] last.op = "verify" -> "verifying"
       [] OTHER -> otherwise

Log(i, events) == trace' = [trace EXCEPT ![i] = @ \o events]

\* Fault: every invocation reads the tokens of the first one, as if they
\* were kept on the strategy.
ClosureShared(i) ==
  LET first == CHOOSE j \in Invocations : \A k \in Invocations : j <= k
  IN [accessToken |-> accessToken[first], refreshToken |-> refreshToken[first]]

\* The variables accessToken and refreshToken of one call of authenticate,
\* which its callbacks close over.
Closure(i) == [accessToken |-> accessToken[i], refreshToken |-> refreshToken[i]]

\* Fault: a request without an access token turns the header fallback off
\* on the strategy.
AuthenticateWritesStrategy(i) ==
  LET at == ResolveAccessToken(strategy, req[i])
      rt == ResolveRefreshToken(strategy, req[i])
      made == AuthenticateCalls(strategy, at, rt)
  IN /\ pc[i] = "idle"
     /\ accessToken' = [accessToken EXCEPT ![i] = at]
     /\ refreshToken' = [refreshToken EXCEPT ![i] = rt]
     /\ Log(i, made)
     /\ pc' = [pc EXCEPT ![i] = PcAfter(made, "returned")]
     /\ strategy' = IF Truthy(at) THEN strategy
                    ELSE [strategy EXCEPT !._oAuth2HeaderFallback = Bool(FALSE)]
     /\ UNCHANGED <<config, req, doneCalls>>

\* authenticate(req) up to its return.
Authenticate(i) ==
  LET at == ResolveAccessToken(strategy, req[i])
      rt == ResolveRefreshToken(strategy, req[i])
      made == AuthenticateCalls(strategy, at, rt)
  IN /\ pc[i] = "idle"
     /\ accessToken' = [accessToken EXCEPT ![i] = at]
     /\ refreshToken' = [refreshToken EXCEPT ![i] = rt]
     /\ Log(i, made)
     /\ pc' = [pc EXCEPT ![i] = PcAfter(made, "returned")]
     /\ UNCHANGED <<config, strategy, req, doneCalls>>

\* The callback (error, _accessToken, _refreshToken) of getOAuthAccessToken.
ExchangeCallback(i, error, _accessToken, _refreshToken) ==
  LET got == ExchangedTokens(Closure(i).accessToken, Closure(i).refreshToken,
                             _accessToken, _refreshToken)
      made == ExchangeCallbackCalls(strategy, error, got.accessToken)
  IN /\ pc[i] = "exchanging"
     /\ accessToken' = [accessToken EXCEPT ![i] = IF Truthy(error) THEN @ ELSE got.accessToken]
     /\ refreshToken' = [refreshToken EXCEPT ![i] = IF Truthy(error) THEN @ ELSE got.refreshToken]
     /\ Log(i, <<[op |-> "exchanged", error |-> error, accessToken |-> _accessToken,
                  refreshToken |-> _refreshToken]>> \o made)
     /\ pc' = [pc EXCEPT ![i] = PcAfter(made, "returned")]
     /\ UNCHANGED <<config, strategy, req, doneCalls>>

\* The callback (error, body) of this._oauth2.get in userProfile, up to the
\* call of this._verify: userProfile hands (error, profile) to its done, the
\* callback of loadUserProfile, which reports the error or calls verify.
ProfileCallback(i, error, body) ==
  LET res == userProfile(error, body)
      made == LoadUserProfileCallback(strategy, req[i],
                                      Closure(i).accessToken, Closure(i).refreshToken,
                                      res.error, res.profile)
  IN /\ pc[i] = "fetching"
     /\ Log(i, <<[op |-> "got", error |-> error, body |-> body],
                 [op |-> "userProfileDone", error |-> res.error, profile |-> res.profile]>>
               \o made)
     /\ pc' = [pc EXCEPT ![i] = PcAfter(made, "returned")]
     /\ UNCHANGED <<config, strategy, req, accessToken, refreshToken, doneCalls>>

\* The verify callback invokes done(err, user, info): during its
\* synchronous run, after it has returned, or after it has thrown.
Done(i, err, user, info) ==
  /\ pc[i] \in {"verifying", "verified", "threw"}
  /\ doneCalls[i] < MaxDoneCalls
  /\ Log(i, <<[op |-> "done", err |-> err, user |-> user, info |-> info],
              DoneDisposition(err, user, info)>>)
  /\ doneCalls' = [doneCalls EXCEPT ![i] = @ + 1]
  /\ UNCHANGED <<config, strategy, req, pc, accessToken, refreshToken>>

\* this._verify(...args) returns.
VerifyReturn(i) ==
  /\ pc[i] = "verifying"
  /\ pc' = [pc EXCEPT ![i] = "verified"]
  /\ UNCHANGED <<config, strategy, req, accessToken, refreshToken, trace, doneCalls>>

\* this._verify(...args) throws err inside the try block of userProfile: the
\* catch clause hands the exception to done, the callback of loadUserProfile.
VerifyThrow(i, err) ==
  /\ pc[i] = "verifying"
  /\ Log(i, <<[op |-> "threw", err |-> err],
              [op |-> "userProfileDone", error |-> err, profile |-> Undefined]>>
            \o LoadUserProfileCallback(strategy, req[i],
                                       Closure(i).accessToken, Closure(i).refreshToken,
                                       err, Undefined))
  /\ pc' = [pc EXCEPT ![i] = "threw"]
  /\ UNCHANGED <<config, strategy, req, accessToken, refreshToken, doneCalls>>

(***************************************************************************)
(* The inputs: construction options, requests, and what the transport and  *)
(* the verify callback answer.                                             *)
(***************************************************************************)
ClientConfig == [clientID |-> Str(<<"foo">>), clientSecret |-> Str(<<"bar">>)]

NotGiven == [x \in {} |-> Undefined]

\* Every combination of the two fallback flags, passReqToCallback, and two
\* other carrier lists.
OptionsSet ==
  {ClientConfig @@ h @@ f :
     h \in {NotGiven, [oAuth2HeaderFallback |-> Bool(FALSE)]},
     f \in {NotGiven, [refreshTokenFallback |-> Bool(FALSE)]}}
  \cup {ClientConfig @@ [passReqToCallback |-> Bool(TRUE)]}
  \cup {[clientID |-> ClientConfig.clientID]}
  \cup {ClientConfig @@ [lookups |-> l] : l \in {<<"headers", "body">>, <<"query">>}}

Request(body, query, headers) ==
  [t |-> "object", body |-> body, query |-> query, headers |-> headers]

BodyBoth ==
  Obj(<<Prop("access_token", Str(<<"T1">>)), Prop("refresh_token", Str(<<"R1">>))>>)
BodyRefresh == Obj(<<Prop("refresh_token", Str(<<"R1">>))>>)
BodyEmptyAccess ==
  Obj(<<Prop("access_token", Str(<<>>)), Prop("refresh_token", Str(<<"R1">>))>>)
QueryAccess == Obj(<<Prop("access_token", Str(<<"T2">>))>>)
HeadersBearer == Obj(<<Prop("Authorization", Str(<<"Bearer ", "T3">>))>>)
HeadersUpperCase ==
  Obj(<<Prop("ACCESS_TOKEN", Str(<<"T3">>)), Prop("REFRESH_TOKEN", Str(<<"R3">>))>>)
HeadersBasic ==
  Obj(<<Prop("authorization", Str(<<"Basic ", "T3">>)), Prop("refresh_token", Str(<<>>))>>)

Requests ==
  {Request(Undefined, Undefined, Undefined),
   Request(Str(<<"raw">>), Undefined, Null),
   Request(BodyBoth, Undefined, Undefined),
   Request(BodyRefresh, Undefined, Undefined),
   Request(BodyEmptyAccess, Undefined, Undefined),
   Request(Undefined, QueryAccess, Undefined),
   Request(Undefined, Undefined, HeadersBearer),
   Request(Undefined, Undefined, HeadersUpperCase),
   Request(Undefined, Undefined, HeadersBasic),
   Request(BodyRefresh, Undefined, HeadersBearer),
   Request(BodyBoth, QueryAccess, HeadersUpperCase)}

\* An error of the OAuth2 client: the status code and the payload of the response.
TransportErrors == {[t |-> "object", statusCode |-> 401, data |-> "invalid_client"]}

\* What getOAuthAccessToken calls back with.
ExchangeResults ==
  [error : TransportErrors, accessToken : {Undefined}, refreshToken : {Undefined}]
  \cup [error : {Null},
        accessToken : {Undefined, Str(<<"T9">>)},
        refreshToken : {Undefined, Str(<<"R9">>)}]

\* The profile documents the profile endpoint answers with: a user object,
\* and one that has fields named provider and _raw.
Documents ==
  {Obj(<<Prop("id", Str(<<"268">>)), Prop("username", Str(<<"Discord">>))>>),
   Obj(<<Prop("provider", Str(<<"other">>)), Prop("_raw", Str(<<"x">>))>>)}

\* The lexemes of the members of a document from position n on.
RECURSIVE StringifyMembers(_, _)
StringifyMembers(props, n) ==
  IF n > Len(props) THEN <<>>
  ELSE (IF n > 1 THEN <<",">> ELSE <<>>)
       \o <<props[n].k, ":", props[n].v.s[1]>> \o StringifyMembers(props, n + 1)

\* JSON.stringify(doc)
Stringify(doc) == Str(<<"{">> \o StringifyMembers(doc.props, 1) \o <<"}">>)

\* Bodies that are no JSON text: a document after a stray brace, and nothing.
MalformedBodies == {Str(<<"{", "{", "id", ":", "268", "}">>), Str(<<>>)}

\* What this._oauth2.get calls back with.
ProfileResults ==
  [error : TransportErrors, body : {Undefined}]
  \cup [error : {Null}, body : {Stringify(d) : d \in Documents} \cup MalformedBodies]

\* What the verify callback calls done with.
VerifyErrors == {Null, [t |-> "error", name |-> "Error", message |-> "verify"]}
Users == {Bool(FALSE), Obj(<<Prop("id", Str(<<"268">>))>>)}
Infos == {Undefined, Obj(<<Prop("info", Str(<<"info">>))>>)}

\* The arguments of one done call: without an error every user and info,
\* with an error a user and an info, or neither.
DoneArgs ==
  [err : {Null}, user : Users, info : Infos]
  \cup {[err |-> e, user |-> ui[1], info |-> ui[2]] :
          e \in VerifyErrors \ {Null},
          ui \in {<<Bool(FALSE), Undefined>>,
                  <<Obj(<<Prop("id", Str(<<"268">>))>>), Obj(<<Prop("info", Str(<<"info">>))>>)>>}}

\* What the verify callback throws.
Thrown == {[t |-> "error", name |-> "Error", message |-> "thrown"]}

(***************************************************************************)
(* One strategy, constructed once, and one authenticate invocation.        *)
(***************************************************************************)
StartWith(ids, optionsSet, requests) ==
  /\ config \in optionsSet
  /\ strategy = DiscordTokenStrategy(config)
  /\ req \in [ids -> requests]
  /\ pc = [i \in ids |-> "idle"]
  /\ accessToken = [i \in ids |-> Undefined]
  /\ refreshToken = [i \in ids |-> Undefined]
  /\ trace = [i \in ids |-> <<>>]
  /\ doneCalls = [i \in ids |-> 0]

Start(ids) == StartWith(ids, OptionsSet, Requests)

Init == Start({1})

Next ==
  \/ \E i \in Invocations : Authenticate(i)
  \/ \E i \in Invocations, r \in ExchangeResults :
       ExchangeCallback(i, r.error, r.accessToken, r.refreshToken)
  \/ \E i \in Invocations, r \in ProfileResults : ProfileCallback(i, r.error, r.body)
  \/ \E i \in Invocations, d \in DoneArgs : Done(i, d.err, d.user, d.info)
  \/ \E i \in Invocations : VerifyReturn(i)
  \/ \E i \in Invocations, err \in Thrown : VerifyThrow(i, err)

Spec == Init /\ [][Next]_vars

\* The scheduling a started invocation relies on: the transport delivers
\* each callback, and verify answers with a first done.
FirstDone(i) ==
  /\ doneCalls[i] = 0
  /\ \E d \in DoneArgs : Done(i, d.err, d.user, d.info)

Fairness(ids) ==
  \A i \in ids :
    /\ WF_vars(\E r \in ExchangeResults :
                 ExchangeCallback(i, r.error, r.accessToken, r.refreshToken))
    /\ WF_vars(\E r \in ProfileResults : ProfileCallback(i, r.error, r.body))
    /\ WF_vars(FirstDone(i))

FairSpec == Spec /\ Fairness({1})

(***************************************************************************)
(* Properties.                                                             *)
(***************************************************************************)
IsDisposition(e) == e.op \in {"success", "fail", "error"}

Dispositions(i) == SelectSeq(trace[i], IsDisposition)

Positions(i, op) == {n \in 1..Len(trace[i]) : trace[i][n].op = op}

Has(i, op) == Positions(i, op) # {}

Falsy == {Undefined, Null, Bool(FALSE), Str(<<>>)}

\* The verify callback has kept to its protocol so far: it has not thrown
\* and has not invoked done more than once.
WellBehaved(i) == pc[i] # "threw" /\ doneCalls[i] <= 1

\* The access token and the refresh token among the arguments of a verify call.
TokensGiven(e) ==
  IF Len(e.args) = 5 THEN <<e.args[2], e.args[3]>> ELSE <<e.args[1], e.args[2]>>

\* C1: when every transport call calls back once and verify invokes done
\* once without throwing, an invocation never has more than one disposition
\* and, once authenticate is called, ends with exactly one, on the direct
\* fail, exchange and direct access-token paths.
C1_ExactlyOneDisposition ==
  \A i \in {1} :
    /\ [](WellBehaved(i) => Len(Dispositions(i)) <= 1)
    /\ [](pc[i] # "idle" => <>[](WellBehaved(i) => Len(Dispositions(i)) = 1))

C1_Witness ==
  \E i \in Invocations :
    /\ Has(i, "exchanged")
    /\ Has(i, "done")
    /\ pc[i] = "verified"
    /\ WellBehaved(i)
    /\ Len(Dispositions(i)) = 1

\* C2: an invocation never has more than one disposition, whatever the
\* verify callback does (done invoked twice, an exception thrown after done).
C2_AtMostOneDisposition == \A i \in Invocations : Len(Dispositions(i)) <= 1

\* C3: when neither token is resolved, the invocation fails with the
\* "Neither..." message and calls neither the transport nor verify,
\* whatever the two fallback flags are.
C3_NeitherTokenFails ==
  \A i \in Invocations :
    (/\ pc[i] # "idle"
     /\ ResolveAccessToken(strategy, req[i]) \in Falsy
     /\ ResolveRefreshToken(strategy, req[i]) \in Falsy)
    => /\ trace[i] = <<[op |-> "fail",
                        info |-> [message |-> "Neither access token nor refresh token could be parsed from the request"]]>>
       /\ pc[i] = "returned"

C3_Witness ==
  \E i \in Invocations :
    /\ pc[i] = "returned"
    /\ strategy._refreshTokenFallback = Bool(FALSE)
    /\ strategy._oAuth2HeaderFallback = Bool(FALSE)
    /\ req[i].headers = HeadersBearer
    /\ Len(trace[i]) = 1
    /\ trace[i][1].op = "fail"
    /\ trace[i][1].info.message = NeitherTokenMessage

\* C4: with no access token, a refresh token and refreshTokenFallback
\* disabled, the invocation fails with the "...exchange disabled" message and
\* calls neither the transport nor verify.
C4_ExchangeDisabledFails ==
  \A i \in Invocations :
    (/\ pc[i] # "idle"
     /\ ResolveAccessToken(strategy, req[i]) \in Falsy
     /\ ResolveRefreshToken(strategy, req[i]) \notin Falsy
     /\ strategy._refreshTokenFallback \in Falsy)
    => /\ trace[i] = <<[op |-> "fail",
                        info |-> [message |-> "Access token could not be parsed from the request (refresh token exchange disabled)"]]>>
       /\ pc[i] = "returned"

C4_Witness ==
  \E i \in Invocations :
    /\ pc[i] = "returned"
    /\ req[i].body = BodyRefresh
    /\ strategy._refreshTokenFallback = Bool(FALSE)
    /\ Len(trace[i]) = 1
    /\ trace[i][1].op = "fail"
    /\ trace[i][1].info.message = ExchangeDisabledMessage

C6_ExchangedTokensReplaceBoth ==
  \A i \in Invocations :
    \A n \in Positions(i, "exchanged") :
      trace[i][n].error \in Falsy
      => /\ Len(trace[i]) > n
         /\ trace[i][n + 1].op = "get"
         /\ trace[i][n + 1].accessToken = trace[i][n].accessToken
         /\ Cardinality(Positions(i, "get")) = 1
         /\ \A m \in Positions(i, "verify") :
              TokensGiven(trace[i][m]) = <<trace[i][n].accessToken, trace[i][n].refreshToken>>

C6_Witness ==
  \E i \in Invocations :
    \E n \in Positions(i, "exchanged"), m \in Positions(i, "verify") :
      /\ trace[i][n].accessToken = Str(<<"T9">>)
      /\ trace[i][n].refreshToken = Undefined
      /\ ResolveRefreshToken(strategy, req[i]) = Str(<<"R1">>)
      /\ TokensGiven(trace[i][m]) = <<Str(<<"T9">>), Undefined>>

\* C7: when an access token is resolved from the request, verify is given
\* that access token and the resolved refresh token, and success is called
\* if and only if verify has called done with no error and a truthy user;
\* it is then the only disposition when verify keeps to its protocol.
C7_DirectPathTokensAndSuccess ==
  \A i \in Invocations :
    (pc[i] # "idle" /\ ResolveAccessToken(strategy, req[i]) \notin Falsy)
    => /\ \A m \in Positions(i, "verify") :
            TokensGiven(trace[i][m]) =
              <<ResolveAccessToken(strategy, req[i]), ResolveRefreshToken(strategy, req[i])>>
       /\ Has(i, "success")
            <=> \E n \in Positions(i, "done") :
                  trace[i][n].err \in Falsy /\ trace[i][n].user \notin Falsy
       /\ (Has(i, "success") /\ WellBehaved(i))
            => \E n \in Positions(i, "done") :
                  Dispositions(i) = <<[op |-> "success", user |-> trace[i][n].user,
                                       info |-> trace[i][n].info]>>

C7_Witness ==
  \E i \in Invocations :
    /\ req[i].body = BodyBoth
    /\ strategy._lookups = <<"body", "query", "headers">>
    /\ \E m \in Positions(i, "verify") :
         TokensGiven(trace[i][m]) = <<Str(<<"T1">>), Str(<<"R1">>)>>
    /\ Has(i, "success")
    /\ Len(Dispositions(i)) = 1

\* C8: each done(err, user, info) is answered at once by one disposition: a
\* truthy err by error(err) whatever user and info are, no err and a falsy
\* user by fail(info), no err and a truthy user by success(user, info).
C8_DoneMapsToDisposition ==
  \A i \in Invocations :
    \A n \in Positions(i, "done") :
      LET e == trace[i][n]
      IN /\ Len(trace[i]) > n
         /\ e.err \notin Falsy => trace[i][n + 1] = [op |-> "error", err |-> e.err]
         /\ (e.err \in Falsy /\ e.user \in Falsy)
              => trace[i][n + 1] = [op |-> "fail", info |-> e.info]
         /\ (e.err \in Falsy /\ e.user \notin Falsy)
              => trace[i][n + 1] = [op |-> "success", user |-> e.user, info |-> e.info]

C8_Witness ==
  \E i \in Invocations :
    \E n \in Positions(i, "done") :
      /\ trace[i][n].err \notin Falsy
      /\ trace[i][n].user \notin Falsy
      /\ trace[i][n].info \notin Falsy
      /\ trace[i][n + 1].op = "error"

\* C9: when userProfile calls back with an error, the one disposition of
\* the invocation is error with that error, and verify, success and fail
\* are never called for it.
C9_ProfileErrorReported ==
  \A i \in Invocations :
    \A n \in Positions(i, "userProfileDone") :
      trace[i][n].error \notin Falsy
      => /\ Dispositions(i) = <<[op |-> "error", err |-> trace[i][n].error]>>
         /\ ~Has(i, "verify")
         /\ ~Has(i, "success")
         /\ ~Has(i, "fail")

\* C10: when userProfile calls back with a profile, verify is the next call
\* and its arguments are (accessToken, refreshToken, profile, done), with
\* the request object first exactly when passReqToCallback is set.
C10_VerifyArguments ==
  \A i \in Invocations :
    \A n \in Positions(i, "userProfileDone") :
      trace[i][n].error \in Falsy
      => /\ Len(trace[i]) > n
         /\ trace[i][n + 1].op = "verify"
         /\ LET args == trace[i][n + 1].args
                base == <<accessToken[i], refreshToken[i], trace[i][n].profile,
                          [t |-> "function", name |-> "done"]>>
            IN IF strategy._passReqToCallback \notin Falsy
               THEN args = <<req[i]>> \o base
               ELSE args = base

C10_Witness ==
  \E i \in Invocations :
    \E m \in Positions(i, "verify") :
      /\ strategy._passReqToCallback = Bool(TRUE)
      /\ Len(trace[i][m].args) = 5
      /\ trace[i][m].args[1] = req[i]
      /\ trace[i][m].args[4].t = "object"
      /\ trace[i][m].args[5].t = "function"

(***************************************************************************)
(* The token lookup on its own: lookup, headerLookup and parseOAuth2Header *)
(* are callable on any request, so this specification draws the carrier    *)
(* order and the request from wider sets and applies each of them, or      *)
(* authenticate, once.                                                     *)
(***************************************************************************)
Carriers == {"body", "query", "headers"}

\* Every permutation of the three carriers, each carrier alone, and a pair.
LookupOrders ==
  {l \in [1..3 -> Carriers] : \A m, n \in 1..3 : l[m] = l[n] => m = n}
  \cup {<<c>> : c \in Carriers}
  \cup {<<"query", "body">>}

LookupOptionsSet ==
  {ClientConfig @@ [lookups |-> l] @@ h :
     l \in LookupOrders,
     h \in {NotGiven, [oAuth2HeaderFallback |-> Bool(FALSE)]}}

LookupBodies ==
  {Undefined, Null, Str(<<"raw">>), Obj(<<>>),
   Obj(<<Prop("access_token", Str(<<"T1">>))>>),
   Obj(<<Prop("access_token", Str(<<>>))>>),
   BodyRefresh}

LookupQueries == {Undefined, Bool(TRUE), QueryAccess}

\* Header collections: none, not an object, keys in several letter cases,
\* an empty value, two keys for one field, and Authorization values with the
\* scheme at the start, later in the value, without a token, and with
\* white space after the token.
LookupHeaders ==
  {Undefined, Null, Str(<<"raw">>), Obj(<<>>),
   Obj(<<Prop("access_token", Str(<<"T3">>))>>),
   Obj(<<Prop("Access_Token", Str(<<"T3">>)), Prop("host", Str(<<"h">>))>>),
   Obj(<<Prop("access_token", Str(<<>>))>>),
   Obj(<<Prop("ACCESS_TOKEN", Str(<<>>)), Prop("access_token", Str(<<"T3">>))>>),
   HeadersBearer,
   Obj(<<Prop("AUTHORIZATION", Str(<<"Bearer ", "T4", " ">>))>>),
   Obj(<<Prop("authorization", Str(<<"Basic ", "Bearer ", "T4">>))>>),
   Obj(<<Prop("authorization", Str(<<"Bearer ">>))>>),
   HeadersBasic}

LookupRequests ==
  {Request(b, q, h) : b \in LookupBodies, q \in LookupQueries, h \in LookupHeaders}

\* The field names lookup and headerLookup are called with.
LookupFields ==
  {"access_token", "ACCESS_TOKEN", "Access_Token", "refresh_token", "authorization"}

\* strategy.lookup(req, field)
LookupCall(i, field) ==
  /\ pc[i] = "idle"
  /\ Log(i, <<[op |-> "lookup", field |-> field,
               result |-> lookup(strategy, req[i], field)]>>)
  /\ pc' = [pc EXCEPT ![i] = "returned"]
  /\ UNCHANGED <<config, strategy, req, accessToken, refreshToken, doneCalls>>

\* DiscordTokenStrategy.headerLookup(req, field)
HeaderLookupCall(i, field) ==
  /\ pc[i] = "idle"
  /\ Log(i, <<[op |-> "headerLookup", field |-> field,
               result |-> headerLookup(req[i], field)]>>)
  /\ pc' = [pc EXCEPT ![i] = "returned"]
  /\ UNCHANGED <<config, strategy, req, accessToken, refreshToken, doneCalls>>

\* DiscordTokenStrategy.parseOAuth2Header(req)
ParseOAuth2HeaderCall(i) ==
  /\ pc[i] = "idle"
  /\ Log(i, <<[op |-> "parseOAuth2Header", result |-> parseOAuth2Header(req[i])]>>)
  /\ pc' = [pc EXCEPT ![i] = "returned"]
  /\ UNCHANGED <<config, strategy, req, accessToken, refreshToken, doneCalls>>

LookupInit == StartWith({1}, LookupOptionsSet, LookupRequests)

LookupNext ==
  \/ \E i \in Invocations, field \in LookupFields : LookupCall(i, field)
  \/ \E i \in Invocations, field \in LookupFields : HeaderLookupCall(i, field)
  \/ \E i \in Invocations : ParseOAuth2HeaderCall(i)
  \/ \E i \in Invocations : Authenticate(i)

LookupSpec == LookupInit /\ [][LookupNext]_vars

(***************************************************************************)
(* Properties of the token lookup.                                         *)
(***************************************************************************)
\* Names that differ in letter case only.
LetterCases ==
  {{"access_token", "ACCESS_TOKEN", "Access_Token"},
   {"refresh_token", "REFRESH_TOKEN"},
   {"authorization", "Authorization", "AUTHORIZATION"}}

SameName(k, f) == k = f \/ \E c \in LetterCases : k \in c /\ f \in c

CarrierOf(r, c) ==
  CASE c = "body" -> r.body [] c = "query" -> r.query [] c = "headers" -> r.headers

\* The positions of the properties a carrier has for a field: by the exact
\* name in body and query, whatever the letter case in headers.
HeldAt(r, c, f) ==
  IF CarrierOf(r, c).t # "object" THEN {}
  ELSE {n \in 1..Len(CarrierOf(r, c).props) :
          IF c = "headers" THEN SameName(CarrierOf(r, c).props[n].k, f)
          ELSE CarrierOf(r, c).props[n].k = f}

Held(r, c, f) == {CarrierOf(r, c).props[n].v : n \in HeldAt(r, c, f)}

Min(S) == CHOOSE n \in S : \A m \in S : n <= m

IsLookupProbe(i) == Len(trace[i]) = 1 /\ trace[i][1].op = "lookup"

\* C11: lookup returns the value of the first carrier, in the configured
\* order, that has the field, whatever the value is, and "not found" when no
\* configured carrier has it (requests with one key per field in a carrier).
C11_FirstHolderWins ==
  \A i \in Invocations :
    IsLookupProbe(i) =>
      LET f == trace[i][1].field
          order == strategy._lookups
          holders == {m \in 1..Len(order) : Held(req[i], order[m], f) # {}}
      IN (\A c \in Carriers : Cardinality(HeldAt(req[i], c, f)) <= 1) =>
           IF holders = {} THEN trace[i][1].result \in Falsy
           ELSE trace[i][1].result \in Held(req[i], order[Min(holders)], f)

\* The same with "has the field" read as "has a non-empty value for it":
\* what lookup does.
LookupFirstNonEmptyHolderWins ==
  \A i \in Invocations :
    IsLookupProbe(i) =>
      LET f == trace[i][1].field
          order == strategy._lookups
          holders == {m \in 1..Len(order) : Held(req[i], order[m], f) \ Falsy # {}}
      IN IF holders = {} THEN trace[i][1].result \in Falsy
         ELSE trace[i][1].result \in Held(req[i], order[Min(holders)], f) \ Falsy

\* authenticate has run on the request, and nothing else.
Authenticated(i) ==
  Len(trace[i]) = 1 /\ trace[i][1].op \in {"fail", "get", "getOAuthAccessToken"}

\* The values of the first carrier, in the strategy's order, that has a
\* non-empty value for the field.
Explicit(s, r, f) ==
  LET holders == {m \in 1..Len(s._lookups) : Held(r, s._lookups[m], f) \ Falsy # {}}
  IN IF holders = {} THEN {} ELSE Held(r, s._lookups[Min(holders)], f) \ Falsy

\* v is what follows an occurrence of "Bearer " in an Authorization header.
FromBearerHeader(r, v) ==
  /\ v.t = "string"
  /\ \E h \in Held(r, "headers", "authorization") :
       \E n \in 1..Len(h.s) : h.s[n] = "Bearer " /\ v.s = SubSeq(h.s, n + 1, Len(h.s))

\* C12: the access token authenticate resolves is the access-token field of
\* the ordered carrier search whenever the search finds one; when it finds
\* none, the token comes from the bearer header if oAuth2HeaderFallback is
\* enabled and there is no token if it is disabled.
C12_BearerOnlyAsFallback ==
  \A i \in Invocations :
    Authenticated(i) =>
      LET explicit == Explicit(strategy, req[i], strategy._accessTokenField)
      IN /\ explicit # {} => accessToken[i] \in explicit
         /\ explicit = {} /\ strategy._oAuth2HeaderFallback = Bool(FALSE) =>
              accessToken[i] \in Falsy
         /\ explicit = {} /\ strategy._oAuth2HeaderFallback = Bool(TRUE) =>
              accessToken[i] \in Falsy \/ FromBearerHeader(req[i], accessToken[i])

\* An explicit field and a bearer header with another token, fallback enabled.
C12_Witness ==
  \E i \in Invocations :
    /\ Authenticated(i)
    /\ strategy._oAuth2HeaderFallback = Bool(TRUE)
    /\ Explicit(strategy, req[i], strategy._accessTokenField) = {Str(<<"T1">>)}
    /\ FromBearerHeader(req[i], Str(<<"T3">>))
    /\ accessToken[i] = Str(<<"T1">>)

IsHeaderLookupProbe(i) == Len(trace[i]) = 1 /\ trace[i][1].op = "headerLookup"

\* The request with the header at position n stored under the key k.
WithHeaderKey(r, n, k) ==
  [r EXCEPT !.headers.props[n] = Prop(k, @.v)]

\* C13: when the headers have a single key for the field, headerLookup gives
\* the same result whatever the letter case of that key and of the field name
\* it is asked for.
C13_HeaderLookupCaseInsensitive ==
  \A i \in Invocations :
    IsHeaderLookupProbe(i) /\ Cardinality(HeldAt(req[i], "headers", trace[i][1].field)) = 1 =>
      LET f == trace[i][1].field
          n == CHOOSE n \in HeldAt(req[i], "headers", f) : TRUE
      IN \A k \in UNION LetterCases, g \in UNION LetterCases :
           SameName(k, f) /\ SameName(g, f) =>
             headerLookup(WithHeaderKey(req[i], n, k), g) = trace[i][1].result

\* The key and the queried name differ in case, and neither is lower case.
C13_Witness ==
  \E i \in Invocations :
    /\ IsHeaderLookupProbe(i)
    /\ trace[i][1].field = "ACCESS_TOKEN"
    /\ HeldAt(req[i], "headers", "ACCESS_TOKEN") = {1}
    /\ req[i].headers.props[1].k = "Access_Token"
    /\ trace[i][1].result = Str(<<"T3">>)

\* C14: headerLookup returns the value of the first key that matches the
\* field whatever its letter case, an empty string included, and "not found"
\* (false) only when no key matches.
C14_HeaderLookupFirstMatchEvenEmpty ==
  \A i \in Invocations :
    IsHeaderLookupProbe(i) =>
      LET at == HeldAt(req[i], "headers", trace[i][1].field)
      IN IF at = {} THEN trace[i][1].result = Bool(FALSE)
         ELSE trace[i][1].result = req[i].headers.props[Min(at)].v

IsParseProbe(i) == Len(trace[i]) = 1 /\ trace[i][1].op = "parseOAuth2Header"

\* C15: parseOAuth2Header returns "not found" unless the Authorization value
\* starts with "Bearer " and something follows it, and then returns exactly
\* what follows (requests with one Authorization key).
C15_BearerPrefixOnly ==
  \A i \in Invocations :
    IsParseProbe(i) /\ Cardinality(HeldAt(req[i], "headers", "authorization")) <= 1 =>
      LET held == Held(req[i], "headers", "authorization")
          v == CHOOSE v \in held : TRUE
      IN IF held # {} /\ Len(v.s) > 1 /\ v.s[1] = "Bearer "
         THEN trace[i][1].result = Str(Tail(v.s))
         ELSE trace[i][1].result \in Falsy

NotObject(v) == v.t # "object"

\* The request with every carrier that is not an object left out.
WithoutNonObjects(r) ==
  [r EXCEPT !.body = IF NotObject(@) THEN Undefined ELSE @,
            !.query = IF NotObject(@) THEN Undefined ELSE @,
            !.headers = IF NotObject(@) THEN Undefined ELSE @]

\* C16: a carrier that is missing, null or not an object counts as absent:
\* lookup gives what it gives without that carrier, and "not found" when no
\* configured carrier is an object; headerLookup and parseOAuth2Header give
\* "not found" for such headers; and authenticate fails with the "neither
\* token" message when none of the three carriers is an object.
C16_NonObjectCarriersAbsent ==
  \A i \in Invocations :
    /\ IsLookupProbe(i) =>
         /\ trace[i][1].result =
              lookup(strategy, WithoutNonObjects(req[i]), trace[i][1].field)
         /\ (\A m \in 1..Len(strategy._lookups) :
               NotObject(CarrierOf(req[i], strategy._lookups[m]))) =>
              trace[i][1].result = Bool(FALSE)
    /\ (IsHeaderLookupProbe(i) \/ IsParseProbe(i)) /\ NotObject(req[i].headers) =>
         trace[i][1].result = Bool(FALSE)
    /\ Authenticated(i) /\ (\A c \in Carriers : NotObject(CarrierOf(req[i], c))) =>
         trace[i] = <<Fail([message |-> NeitherTokenMessage])>>

\* A string body, a boolean query and null headers.
C16_Witness ==
  \E i \in Invocations :
    /\ Authenticated(i)
    /\ req[i].body = Str(<<"raw">>)
    /\ req[i].query = Bool(TRUE)
    /\ req[i].headers = Null
    /\ trace[i] = <<Fail([message |-> NeitherTokenMessage])>>

(***************************************************************************)
(* Properties of userProfile.                                              *)
(***************************************************************************)
\* The positions at which this._oauth2.get has called back with the text of
\* the document d and no error; userProfile's answer is the event that follows.
GotDocument(i, d) ==
  {n \in Positions(i, "got") : trace[i][n].error = Null /\ trace[i][n].body = Stringify(d)}

\* C17: the profile made from a well-formed document has provider "discord",
\* whatever the document's fields.
C17_ProviderIsDiscord ==
  \A i \in Invocations, d \in Documents :
    \A n \in GotDocument(i, d) :
      /\ trace[i][n + 1].op = "userProfileDone"
      /\ trace[i][n + 1].profile.t = "object"
      /\ Get(trace[i][n + 1].profile, "provider") = Str(<<"discord">>)

C19_ProfileFailureKinds ==
  \A i \in Invocations :
    \A n \in Positions(i, "got") :
      /\ Truthy(trace[i][n].error) =>
           trace[i][n + 1] =
             [op |-> "userProfileDone",
              error |-> InternalOAuthError("Failed to fetch user profile", trace[i][n].error),
              profile |-> Undefined]
      /\ trace[i][n].error = Null /\ trace[i][n].body \in MalformedBodies =>
           /\ trace[i][n + 1].op = "userProfileDone"
           /\ trace[i][n + 1].profile = Undefined
           /\ trace[i][n + 1].error.name = "SyntaxError"
           /\ trace[i][n + 1].error.message
                \in {"Unexpected token in JSON", "Unexpected end of JSON input"}
           /\ "oauthError" \notin DOMAIN trace[i][n + 1].error

\* The stray brace at the second lexeme is reported by JSON.parse's own error.
C19_Witness ==
  \E i \in Invocations :
    \E n \in Positions(i, "got") :
      /\ trace[i][n].error = Null
      /\ trace[i][n].body \in MalformedBodies
      /\ Len(trace[i][n].body.s) >= 2
      /\ trace[i][n + 1].error = SyntaxError(trace[i][n].body.s, 2)

(***************************************************************************)
(* Properties of the constructor.                                          *)
(***************************************************************************)
\* C20: the OAuth2 client a refresh exchange is made on holds the
\* clientSecret the strategy was constructed with, and holds none only when
\* none was given.
C20_ExchangeUsesGivenSecret ==
  \A i \in Invocations :
    \A n \in Positions(i, "getOAuthAccessToken") :
      trace[i][n].oauth2.clientSecret = Option(config, "clientSecret", Undefined)

(***************************************************************************)
(* Construction as a step: new DiscordTokenStrategy(config, verify) either *)
(* throws or yields the instance authenticate is then called on.  Before   *)
(* the step strategy is undefined; after it strategy is the instance, or   *)
(* the exception that was thrown.                                          *)
(***************************************************************************)
TypeError(message) == [t |-> "error", name |-> "TypeError", message |-> message]

\* Fault: the options are not checked.
ConstructUnchecked(options) == DiscordTokenStrategy(options)

\* new DiscordTokenStrategy(options, verify): destructuring no options
\* throws, and so does the base class when it is given no authorizationURL,
\* tokenURL or clientID.
Construct(options) ==
  IF options = Undefined
  THEN TypeError("Cannot destructure 'undefined'")
  ELSE IF ~Truthy(BaseOptions(options).authorizationURL)
  THEN TypeError("OAuth2Strategy requires a authorizationURL option")
  ELSE IF ~Truthy(BaseOptions(options).tokenURL)
  THEN TypeError("OAuth2Strategy requires a tokenURL option")
  ELSE IF ~Truthy(BaseOptions(options).clientID)
  THEN TypeError("OAuth2Strategy requires a clientID option")
  ELSE DiscordTokenStrategy(options)

IsInstance(s) == "_lookups" \in DOMAIN s

\* No options, empty options, no clientID, an empty clientID, and complete
\* options with and without a profile URL under either name.
ConstructOptionsSet ==
  {Undefined, NotGiven,
   [clientSecret |-> ClientConfig.clientSecret],
   [clientID |-> Str(<<>>), clientSecret |-> ClientConfig.clientSecret],
   ClientConfig,
   ClientConfig @@ [passReqToCallback |-> Bool(TRUE)],
   ClientConfig @@ [profileURL |-> Str(<<"https://example.com/me">>)],
   ClientConfig @@ [_profileURL |-> Str(<<"https://example.org/me">>)],
   ClientConfig @@ [profileURL |-> Str(<<"https://example.com/me">>),
                    _profileURL |-> Str(<<"https://example.org/me">>)]}

New ==
  /\ strategy = Undefined
  /\ strategy' = Construct(config)
  /\ UNCHANGED <<config, req, pc, accessToken, refreshToken, trace, doneCalls>>

ConstructInit ==
  /\ config \in ConstructOptionsSet
  /\ strategy = Undefined
  /\ req \in [{1} -> Requests]
  /\ pc = [i \in {1} |-> "idle"]
  /\ accessToken = [i \in {1} |-> Undefined]
  /\ refreshToken = [i \in {1} |-> Undefined]
  /\ trace = [i \in {1} |-> <<>>]
  /\ doneCalls = [i \in {1} |-> 0]

ConstructNext ==
  \/ New
  \/ \E i \in Invocations : IsInstance(strategy) /\ Authenticate(i)

ConstructSpec == ConstructInit /\ [][ConstructNext]_vars

\* C21: the profile fetch goes to the URL given as the profileURL option
\* when one is given, and to https://discord.com/api/users/@me otherwise.
C21_FetchFromProfileURLOption ==
  \A i \in Invocations :
    \A n \in Positions(i, "get") :
      trace[i][n].url =
        Option(config, "profileURL", Str(<<"https://discord.com/api/users/@me">>))

\* The options are no options, or lack a clientID.
Misconfigured(options) ==
  \/ options = Undefined
  \/ ~Given(options, "clientID")
  \/ options.clientID \in Falsy

ConcurrentOptionsSet == {ClientConfig, ClientConfig @@ [passReqToCallback |-> Bool(TRUE)]}

\* A refresh token only, and an access token only.
ConcurrentRequests ==
  {Request(BodyRefresh, Undefined, Undefined), Request(Undefined, QueryAccess, Undefined)}

ConcurrentInit == StartWith({1, 2}, ConcurrentOptionsSet, ConcurrentRequests)

ConcurrentNext ==
  \/ \E i \in Invocations : Authenticate(i)
  \/ \E i \in Invocations, r \in ExchangeResults :
       ExchangeCallback(i, r.error, r.accessToken, r.refreshToken)
  \/ \E i \in Invocations, r \in ProfileResults : ProfileCallback(i, r.error, r.body)
  \/ \E i \in Invocations : FirstDone(i)
  \/ \E i \in Invocations : VerifyReturn(i)
  \/ \E i \in Invocations, err \in Thrown : VerifyThrow(i, err)

ConcurrentSpec == ConcurrentInit /\ [][ConcurrentNext]_vars

\* The tokens invocation i holds at position m of its history: those of its
\* own successful exchange if it has had one by then, else those resolved
\* from its own request.
OwnTokens(i, m) ==
  LET done == {n \in Positions(i, "exchanged") : n < m /\ ~Truthy(trace[i][n].error)}
  IN IF done # {}
     THEN <<trace[i][Min(done)].accessToken, trace[i][Min(done)].refreshToken>>
     ELSE <<ResolveAccessToken(strategy, req[i]), ResolveRefreshToken(strategy, req[i])>>

\* C23: whatever the interleaving of two invocations, each one's first call
\* follows from its own request, its profile fetch and its verify call carry
\* its own tokens, its own request and the profile made from its own
\* response, and each disposition follows from its own preceding event.
C23_InvocationsIndependent ==
  \A i \in Invocations :
    /\ pc[i] # "idle" =>
         SubSeq(trace[i], 1, 1) =
           AuthenticateCalls(strategy, OwnTokens(i, 1)[1], OwnTokens(i, 1)[2])
    /\ \A m \in Positions(i, "get") : trace[i][m].accessToken = OwnTokens(i, m)[1]
    /\ \A m \in Positions(i, "verify") :
         /\ trace[i][m - 2].op = "got"
         /\ trace[i][m - 1] =
              [op |-> "userProfileDone", error |-> Null,
               profile |-> userProfile(trace[i][m - 2].error, trace[i][m - 2].body).profile]
         /\ trace[i][m].args =
              VerifyArgs(strategy, req[i], OwnTokens(i, m)[1], OwnTokens(i, m)[2],
                         trace[i][m - 1].profile)
    /\ \A m \in 2..Len(trace[i]) :
         IsDisposition(trace[i][m]) =>
           trace[i][m] =
             CASE trace[i][m - 1].op = "exchanged" ->
                    Error(InternalOAuthError(ExchangeFailedMessage, trace[i][m - 1].error))
               [] trace[i][m - 1].op = "userProfileDone" -> Error(trace[i][m - 1].error)
               [] trace[i][m - 1].op = "done" ->
                    DoneDisposition(trace[i][m - 1].err, trace[i][m - 1].user,
                                    trace[i][m - 1].info)

\* One invocation is suspended in its exchange while the other, whose
\* exchange gave other tokens than its request held, is suspended in its fetch.
C23_Witness ==
  /\ pc[1] = "exchanging"
  /\ pc[2] = "fetching"
  /\ Has(2, "exchanged")
  /\ req[1] = req[2]

\* C28: whatever two interleaved invocations do, the strategy's
\* configuration (field names, lookups, fallback flags, profile URL, OAuth2
\* client) is what the constructor made of the options, and no step changes it.
C28_ConfigurationNeverChanges ==
  /\ [](strategy = DiscordTokenStrategy(config))
  /\ [][strategy' = strategy]_vars

\* Both invocations have run to a disposition, one through an exchange.
C28_Witness ==
  /\ Has(1, "exchanged")
  /\ Dispositions(1) # <<>>
  /\ Dispositions(2) # <<>>
  /\ strategy = DiscordTokenStrategy(config)

(***************************************************************************)
(* Properties of the order of the steps of one invocation.                 *)
(***************************************************************************)
\* C24: once authenticate has run, the refresh exchange has been started if
\* and only if the request gave no access token, gave a refresh token and
\* refreshTokenFallback is enabled; it is the invocation's first call, it is
\* given the request's refresh token, and it is never started a second time,
\* also after it has failed.
C24_ExchangeIffNeeded ==
  \A i \in Invocations :
    pc[i] # "idle" =>
      LET at == ResolveAccessToken(strategy, req[i])
          rt == ResolveRefreshToken(strategy, req[i])
      IN /\ Has(i, "getOAuthAccessToken") <=>
              ~Truthy(at) /\ Truthy(rt) /\ Truthy(strategy._refreshTokenFallback)
         /\ Positions(i, "getOAuthAccessToken") \subseteq {1}
         /\ \A n \in Positions(i, "getOAuthAccessToken") :
              trace[i][n].code = rt /\ trace[i][n].grant_type = "refresh_token"

\* The exchange has failed and the invocation has ended with its one exchange.
C24_Witness ==
  \E i \in Invocations :
    /\ Positions(i, "getOAuthAccessToken") = {1}
    /\ \E n \in Positions(i, "exchanged") : Truthy(trace[i][n].error)
    /\ pc[i] = "returned"

\* C25: an invocation starts its profile fetch at most once; while its
\* exchange is in flight it has started none; when it has started both, the
\* exchange has called back without an error in between; and with an access
\* token in the request it starts no exchange.
C25_FetchAfterExchange ==
  \A i \in Invocations :
    /\ Cardinality(Positions(i, "get")) <= 1
    /\ pc[i] = "exchanging" => ~Has(i, "get")
    /\ \A m \in Positions(i, "getOAuthAccessToken"), n \in Positions(i, "get") :
         \E k \in Positions(i, "exchanged") :
           m < k /\ k < n /\ ~Truthy(trace[i][k].error)
    /\ pc[i] # "idle" /\ Truthy(ResolveAccessToken(strategy, req[i])) =>
         ~Has(i, "getOAuthAccessToken")

\* The fetch has been started after a successful exchange.
C25_Witness ==
  \E i \in Invocations :
    /\ Len(trace[i]) = 3
    /\ trace[i][1].op = "getOAuthAccessToken"
    /\ trace[i][2].op = "exchanged"
    /\ trace[i][3].op = "get"
    /\ pc[i] = "fetching"

\* C26: a verify call comes right after the invocation's profile fetch has
\* answered without an error and userProfile has made a profile of it, never
\* after a failed resolution, exchange or fetch, and its access token is the
\* one that fetch was given.
C26_VerifyAfterOwnFetch ==
  \A i \in Invocations :
    \A m \in Positions(i, "verify") :
      /\ m > 3
      /\ trace[i][m - 3].op = "get"
      /\ trace[i][m - 2].op = "got" /\ ~Truthy(trace[i][m - 2].error)
      /\ trace[i][m - 1].op = "userProfileDone"
      /\ ~Truthy(trace[i][m - 1].error) /\ trace[i][m - 1].profile.t = "object"
      /\ TokensGiven(trace[i][m])[1] = trace[i][m - 3].accessToken
      /\ \A k \in 1..(m - 1) :
           /\ ~IsDisposition(trace[i][k])
           /\ trace[i][k].op = "exchanged" => ~Truthy(trace[i][k].error)

\* verify has been called with the token of an exchange.
C26_Witness ==
  \E i \in Invocations :
    \E m \in Positions(i, "verify") :
      /\ Has(i, "exchanged")
      /\ TokensGiven(trace[i][m])[1] = Str(<<"T9">>)
      /\ trace[i][m - 3].accessToken = Str(<<"T9">>)

\* C27: when no configured carrier holds a refresh token, no exchange is
\* started and verify gets no refresh token, whatever the Authorization
\* header holds; otherwise the refresh token authenticate resolves is the
\* one the carriers hold.
C27_RefreshTokenFromCarriersOnly ==
  \A i \in Invocations :
    LET explicit == Explicit(strategy, req[i], strategy._refreshTokenField)
    IN /\ explicit = {} =>
            /\ ~Has(i, "getOAuthAccessToken")
            /\ \A m \in Positions(i, "verify") : TokensGiven(trace[i][m])[2] \in Falsy
       /\ explicit # {} =>
            \A n \in Positions(i, "getOAuthAccessToken") : trace[i][n].code \in explicit

\* A request whose only credential is a bearer header has reached verify.
C27_Witness ==
  \E i \in Invocations :
    \E m \in Positions(i, "verify") :
      /\ req[i] = Request(Undefined, Undefined, HeadersBearer)
      /\ TokensGiven(trace[i][m]) = <<Str(<<"T3">>), Bool(FALSE)>>

Suspended(i) == pc[i] \in {"exchanging", "fetching"}

\* C29: an invocation that waits for its exchange or its fetch has had no
\* disposition, and nothing happens to it but the transport's callback: no
\* step times it out or cancels it.
C29_PendingUntilCallback ==
  /\ [](\A i \in Invocations : Suspended(i) => Dispositions(i) = <<>>)
  /\ [][\A i \in Invocations :
          Suspended(i) /\ (trace'[i] # trace[i] \/ pc'[i] # pc[i]) =>
            /\ Len(trace'[i]) > Len(trace[i])
            /\ SubSeq(trace'[i], 1, Len(trace[i])) = trace[i]
            /\ trace'[i][Len(trace[i]) + 1].op =
                 (IF pc[i] = "exchanging" THEN "exchanged" ELSE "got")]_vars

\* The invocation waits for its fetch after its exchange has answered.
C29_Witness ==
  \E i \in Invocations :
    /\ pc[i] = "fetching"
    /\ Has(i, "exchanged")
    /\ Dispositions(i) = <<>>

\* C30: every profile fetch is given a non-empty access token, also after an
\* exchange that answers without an error.
C30_FetchHasAccessToken ==
  \A i \in Invocations :
    \A n \in Positions(i, "get") :
      trace[i][n].accessToken.t = "string" /\ trace[i][n].accessToken.s # <<>>

(***************************************************************************)
(* Properties of userProfile's callback and of the bearer fallback.        *)
(***************************************************************************)
\* C31: userProfile calls its done once for each response of the transport,
\* with an error or with a profile and never with both, also when done
\* throws while it is handed the profile.
C31_UserProfileDoneOnce ==
  \A i \in Invocations :
    /\ Cardinality(Positions(i, "userProfileDone")) = Cardinality(Positions(i, "got"))
    /\ \A n \in Positions(i, "userProfileDone") :
         Truthy(trace[i][n].error) # (trace[i][n].profile # Undefined)

\* C32: with oAuth2HeaderFallback enabled and no access-token field found in
\* the configured carriers, authenticate takes what follows "Bearer " at the
\* start of the Authorization header as the access token, whether or not
\* headers is among the configured carriers.
C32_BearerFallbackWhateverLookups ==
  \A i \in Invocations :
    /\ Authenticated(i)
    /\ strategy._oAuth2HeaderFallback = Bool(TRUE)
    /\ Explicit(strategy, req[i], strategy._accessTokenField) = {}
    => \A h \in Held(req[i], "headers", "authorization") :
         Len(h.s) > 1 /\ h.s[1] = "Bearer " => accessToken[i] = Str(Tail(h.s))

\* The carriers are the body and the query only, and the bearer token is used.
C32_Witness ==
  \E i \in Invocations :
    /\ Authenticated(i)
    /\ strategy._lookups = <<"query", "body">>
    /\ req[i].headers = HeadersBearer
    /\ accessToken[i] = Str(<<"T3">>)
    /\ trace[i][1].op = "get"

====
